---- MODULE Spec2Model ----
(***************************************************************************)
(* Model of listexamples.go: the walk over packages, the classification of *)
(* every function declaration name (isTest, isExample, isSubExample,       *)
(* isMethodExample), the construction of the per-package funcs map and the *)
(* union of a package with its "_test" variant into the pkg map.           *)
(*                                                                         *)
(* Strings are sequences of one-character strings, so that HasPrefix,      *)
(* TrimPrefix, Split and the Sprintf formats are computed as the code      *)
(* computes them.                                                          *)
(***************************************************************************)
EXTENDS Integers, Sequences, FiniteSets, TLC

VARIABLES pkgList, funcList, pName, dir, pc, op, decl, clock, seen

vars == <<pkgList, funcList, pName, dir, pc, op, decl, clock, seen>>

(* ---------------------------- bounds ----------------------------------- *)

\* Function declarations yielded by ast.Inspect over the whole run.
MaxDecls == 3

\* Packages returned by parser.ParseDir over the whole walk.
MaxPkgs == 2

(* ------------------------- strings of the code ------------------------- *)

Test == <<"T", "e", "s", "t">>

Benchmark == <<"B", "e", "n", "c", "h", "m", "a", "r", "k">>

Example == <<"E", "x", "a", "m", "p", "l", "e">>

TestSuffix == <<"_", "t", "e", "s", "t">>

InSep == <<" ", "i", "n", " ">>

\* The rune utf8.DecodeRuneInString returns for an empty string (U+FFFD).
RuneError == "RuneError"

LowerChars ==
    {"a", "b", "c", "d", "e", "f", "g", "h", "i", "j", "k", "l", "m",
     "n", "o", "p", "q", "r", "s", "t", "u", "v", "w", "x", "y", "z"}

UpperChars ==
    {"A", "B", "C", "D", "E", "F", "G", "H", "I", "J", "K", "L", "M",
     "N", "O", "P", "Q", "R", "S", "T", "U", "V", "W", "X", "Y", "Z"}

IsLower(r) == r \in LowerChars

(* ----------------------- package strings -------------------------------- *)

HasPrefix(s, prefix) ==
    /\ Len(s) >= Len(prefix)
    /\ SubSeq(s, 1, Len(prefix)) = prefix

HasSuffix(s, suffix) ==
    /\ Len(s) >= Len(suffix)
    /\ SubSeq(s, Len(s) - Len(suffix) + 1, Len(s)) = suffix

TrimPrefix(s, prefix) ==
    IF HasPrefix(s, prefix) THEN SubSeq(s, Len(prefix) + 1, Len(s)) ELSE s

TrimSuffix(s, suffix) ==
    IF HasSuffix(s, suffix) THEN SubSeq(s, 1, Len(s) - Len(suffix)) ELSE s

RECURSIVE Split(_, _)
Split(s, sep) ==
    IF \A i \in 1..Len(s) : s[i] # sep
    THEN <<s>>
    ELSE LET i == CHOOSE i \in 1..Len(s) :
                      s[i] = sep /\ \A j \in 1..(i - 1) : s[j] # sep
         IN  <<SubSeq(s, 1, i - 1)>> \o Split(SubSeq(s, i + 1, Len(s)), sep)

DecodeRuneInString(s) == IF s = <<>> THEN RuneError ELSE Head(s)

(* --------------------------- classifier --------------------------------- *)

\* isTest without the test on the rune that follows the prefix.
isTestAnySuffix(name, prefix) == HasPrefix(name, prefix)

isTest(name, prefix) ==
    IF ~HasPrefix(name, prefix) THEN FALSE
    ELSE IF Len(name) = Len(prefix) THEN TRUE
    ELSE ~IsLower(DecodeRuneInString(SubSeq(name, Len(prefix) + 1, Len(name))))

isExample(name) == isTest(name, Example)

\* isSubExample with the comparison off by one.
isSubExampleOffByOne(name) == Len(Split(name, "_")) > 2

isSubExample(name) == Len(Split(name, "_")) > 1

isMethodExample(name) ==
    ~IsLower(DecodeRuneInString(Split(name, "_")[2]))

(* ------------------------------ inputs ---------------------------------- *)

\* Names of the function declarations the parser can yield (x.Name.String()).
nFoo == <<"F", "o", "o">>

nTestify == <<"T", "e", "s", "t", "i", "f", "y">>

nTest == <<"T", "e", "s", "t">>

nTestFoo == <<"T", "e", "s", "t", "F", "o", "o">>

nBenchmark1 == <<"B", "e", "n", "c", "h", "m", "a", "r", "k", "1">>

nExample == <<"E", "x", "a", "m", "p", "l", "e">>

nExamples == <<"E", "x", "a", "m", "p", "l", "e", "s">>

nExampleFoo == <<"E", "x", "a", "m", "p", "l", "e", "F", "o", "o">>

nExampleFoo_bar == <<"E", "x", "a", "m", "p", "l", "e", "F", "o", "o", "_", "b", "a", "r">>

nExampleFoo_Bar == <<"E", "x", "a", "m", "p", "l", "e", "F", "o", "o", "_", "B", "a", "r">>

nExampleFoo_1 == <<"E", "x", "a", "m", "p", "l", "e", "F", "o", "o", "_", "1">>

nExampleFoo_ == <<"E", "x", "a", "m", "p", "l", "e", "F", "o", "o", "_">>

nExample_Foo == <<"E", "x", "a", "m", "p", "l", "e", "_", "F", "o", "o">>

nExample_foo == <<"E", "x", "a", "m", "p", "l", "e", "_", "f", "o", "o">>

nBenchmark == <<"B", "e", "n", "c", "h", "m", "a", "r", "k">>

nBenchmarkFoo == <<"B", "e", "n", "c", "h", "m", "a", "r", "k", "F", "o", "o">>

nBenchmarks == <<"B", "e", "n", "c", "h", "m", "a", "r", "k", "s">>

nTest_x == <<"T", "e", "s", "t", "_", "x">>

nExampleFoo_bar_Baz == <<"E", "x", "a", "m", "p", "l", "e", "F", "o", "o", "_", "b", "a", "r", "_", "B", "a", "z">>

nExamplefoo_Bar == <<"E", "x", "a", "m", "p", "l", "e", "f", "o", "o", "_", "B", "a", "r">>

\* Every shape of name the classifier tells apart.
Names ==
    {nFoo, nTestify, nTest, nTestFoo, nTest_x,
     nBenchmark, nBenchmark1, nBenchmarkFoo, nBenchmarks,
     nExample, nExamples, nExampleFoo, nExampleFoo_bar,
     nExampleFoo_Bar, nExampleFoo_1, nExampleFoo_, nExample_Foo,
     nExample_foo, nExampleFoo_bar_Baz, nExamplefoo_Bar}

\* The names declared in the packages of the multi-package walk.
GroupNames ==
    {nFoo, nTestFoo, nExampleFoo, nExampleFoo_bar, nExampleFoo_Bar,
     nExampleFoo_1}

\* Package names as declared in the files of one directory (p.Name).
PkgX == <<"x">>

PkgXTest == PkgX \o TestSuffix

PkgXTestTest == PkgXTest \o TestSuffix

PkgNames == {PkgX, PkgXTest, PkgXTestTest}

\* gopath + ps + "src" + ps
GoSrc == <<"g", "/", "s", "r", "c", "/">>

\* Directories visited by filepath.Walk, in the lexical order of the walk.
Dirs == <<GoSrc \o <<"a">>, GoSrc \o <<"b">>>>

\* fset.Position(n.Pos()) prints as file:line:column; the n-th declaration
\* yielded in the run stands on line n of the file.
LineTok == <<"1", "2", "3", "4", "5", "6", "7", "8", "9">>

Position(n) == <<"f", ":", LineTok[n], ":", "1">>

\* The format without its tab.
FilePosNoTab(pos) == pos \o <<":">>

\* fmt.Sprintf("%s:\t", pos)
FilePos(pos) == pos \o <<":", "\t">>

(* ------------------------------- maps ----------------------------------- *)

\* make(funcs), make(pkg)
EmptyMap == [k \in {} |-> <<>>]

\* m[k]: the zero value (a nil slice, a nil map) when the key is absent.
Get(m, k) == IF k \in DOMAIN m THEN m[k] ELSE <<>>

\* m[k] = v
Put(m, k, v) == [x \in DOMAIN m \cup {k} |-> IF x = k THEN v ELSE m[x]]

\* The append replaced by an assignment of the single entry.
AssignAt(m, k, entry) == Put(m, k, <<entry>>)

\* funcList[key] = append(funcList[key], entry)
AppendAt(m, k, entry) == Put(m, k, Append(Get(m, k), entry))

(* --------------------------- grouping engine ---------------------------- *)

\* The body of the case *ast.FuncDecl.
FuncDecl(fl, name, filePos) ==
    IF ~(isTest(name, Test) \/ isTest(name, Benchmark))
    THEN LET f1 == IF ~isExample(name) THEN Put(fl, name, <<>>) ELSE fl
         IN  IF isExample(name)
             THEN IF isSubExample(name)
                  THEN LET f2 ==
                             IF ~isMethodExample(name)
                             THEN LET key == Split(TrimPrefix(name, Example), "_")[1]
                                  IN  AppendAt(f1, key, filePos \o name)
                             ELSE f1
                       IN  IF isMethodExample(name)
                           THEN LET key0 == TrimPrefix(name, Example)
                                    key  == Split(key0, "_")[1] \o <<".">>
                                              \o Split(name, "_")[2]
                                IN  AppendAt(f2, key, filePos \o name)
                           ELSE f2
                  ELSE LET key == TrimPrefix(name, Example)
                       IN  AppendAt(f1, key, filePos \o name)
             ELSE f1
    ELSE fl

(* -------------------------- package aggregator -------------------------- *)

\* pName trimmed of "_test", then "%s in %s" with the path under $GOPATH/src.
PkgName(name, dirPath) ==
    LET trimmed == IF HasSuffix(name, TestSuffix)
                   THEN TrimSuffix(name, TestSuffix)
                   ELSE name
        pPath   == TrimPrefix(dirPath, GoSrc)
    IN  trimmed \o InSep \o pPath

\* The union with the existing list overwritten by the new one.
UnionOverwrite(pl, pkgName, fl) ==
    IF Cardinality(DOMAIN Get(pl, pkgName)) # 0
    THEN [pl EXCEPT ![pkgName] =
            [k \in DOMAIN pl[pkgName] \cup DOMAIN fl |->
                IF k \in DOMAIN fl THEN fl[k] ELSE pl[pkgName][k]]]
    ELSE Put(pl, pkgName, fl)

\* The union with the new list put before the existing one.
UnionPrepend(pl, pkgName, fl) ==
    IF Cardinality(DOMAIN Get(pl, pkgName)) # 0
    THEN [pl EXCEPT ![pkgName] =
            [k \in DOMAIN pl[pkgName] \cup DOMAIN fl |->
                IF k \in DOMAIN fl
                THEN fl[k] \o Get(pl[pkgName], k)
                ELSE pl[pkgName][k]]]
    ELSE Put(pl, pkgName, fl)

\* Union of maps if combining "package" and "package_test".
Union(pl, pkgName, fl) ==
    IF Cardinality(DOMAIN Get(pl, pkgName)) # 0
    THEN [pl EXCEPT ![pkgName] =
            [k \in DOMAIN pl[pkgName] \cup DOMAIN fl |->
                IF k \in DOMAIN fl
                THEN Get(pl[pkgName], k) \o fl[k]
                ELSE pl[pkgName][k]]]
    ELSE Put(pl, pkgName, fl)

(* ----------------------------- the walk --------------------------------- *)

NoDecl == [name |-> <<>>, line |-> 0]

Init ==
    /\ pkgList = EmptyMap
    /\ funcList = EmptyMap
    /\ pName = <<>>
    /\ dir = 1
    /\ pc = "walk"
    /\ op = "init"
    /\ decl = NoDecl
    /\ clock = 0
    /\ seen = {}

\* The next package of the walk: directories in lexical order, every package
\* name at most once per directory.
NextPackage(p, d) ==
    /\ pc = "walk"
    /\ Cardinality(seen) < MaxPkgs
    /\ d >= dir
    /\ <<p, d>> \notin seen

\* for _, p := range pkgs, with ast.PackageExports(p) true.
BeginPackage(p, d) ==
    /\ NextPackage(p, d)
    /\ pName' = p
    /\ dir' = d
    /\ seen' = seen \cup {<<p, d>>}
    /\ funcList' = EmptyMap
    /\ pc' = "scan"
    /\ op' = "begin"
    /\ decl' = NoDecl
    /\ UNCHANGED <<pkgList, clock>>

\* One *ast.FuncDecl node met by ast.Inspect.
Declare(name) ==
    /\ pc = "scan"
    /\ clock < MaxDecls
    /\ clock' = clock + 1
    /\ decl' = [name |-> name, line |-> clock + 1]
    /\ funcList' = FuncDecl(funcList, name, FilePos(Position(clock + 1)))
    /\ op' = "decl"
    /\ UNCHANGED <<pkgList, pName, dir, pc, seen>>

\* End of the loop over p.Files: the package is merged into pkgList.
EndPackage ==
    /\ pc = "scan"
    /\ pkgList' = Union(pkgList, PkgName(pName, Dirs[dir]), funcList)
    /\ pc' = "walk"
    /\ op' = "end"
    /\ UNCHANGED <<funcList, pName, dir, decl, clock, seen>>

\* A package without exports that returns before the merge.
NoExportsNoGroup(p, d) ==
    /\ NextPackage(p, d)
    /\ pName' = p
    /\ dir' = d
    /\ seen' = seen \cup {<<p, d>>}
    /\ funcList' = EmptyMap
    /\ pc' = "walk"
    /\ op' = "noexports"
    /\ decl' = NoDecl
    /\ UNCHANGED <<pkgList, clock>>

\* A package for which ast.PackageExports(p) is false: logged, then merged
\* with its empty funcList.
NoExports(p, d) ==
    /\ NextPackage(p, d)
    /\ pName' = p
    /\ dir' = d
    /\ seen' = seen \cup {<<p, d>>}
    /\ funcList' = EmptyMap
    /\ pkgList' = Union(pkgList, PkgName(p, Dirs[d]), EmptyMap)
    /\ pc' = "walk"
    /\ op' = "noexports"
    /\ decl' = NoDecl
    /\ UNCHANGED clock

Next ==
    \/ \E p \in PkgNames, d \in 1..Len(Dirs) : BeginPackage(p, d)
    \/ \E name \in GroupNames : Declare(name)
    \/ EndPackage
    \/ \E p \in PkgNames, d \in 1..Len(Dirs) : NoExports(p, d)

Spec == Init /\ [][Next]_vars

\* The walk over a single directory holding the single package x, its
\* declarations drawn from every shape of name.
NextOnePackage ==
    \/ BeginPackage(PkgX, 1)
    \/ \E name \in Names : Declare(name)
    \/ EndPackage

SpecOnePackage == Init /\ [][NextOnePackage]_vars

TypeOK ==
    /\ pc \in {"walk", "scan"}
    /\ clock \in 0..MaxDecls
    /\ Cardinality(seen) <= MaxPkgs

(* ------------------------ reading the state ----------------------------- *)

\* The entry the declaration d (a name and the line it stands on) is given
\* by the code.
EntryOf(d) == FilePos(Position(d.line)) \o d.name

\* The declaration name an entry ends with: the text after the tab.
NameOf(entry) == Split(entry, "\t")[2]

\* The line an entry's position names.
LineOf(entry) == CHOOSE n \in 1..Len(LineTok) : LineTok[n] = entry[3]

\* Every funcs map of the state: the one being built and the merged groups.
FuncMaps == {funcList} \cup {pkgList[g] : g \in DOMAIN pkgList}

\* The step just taken processed a declaration.
DeclStep == clock' = clock + 1

(* ------------------------------ claims ---------------------------------- *)

\* C1: processing a plain declaration (not a test, benchmark or example)
\* whose name is already a key of the funcs map leaves the list at that key
\* untouched; an absent key is inserted with an empty list.
C1_PlainKeepsList ==
    [][(DeclStep /\ ~isTest(decl'.name, Test)
                 /\ ~isTest(decl'.name, Benchmark)
                 /\ ~isExample(decl'.name))
        => funcList' = IF decl'.name \in DOMAIN funcList
                       THEN funcList
                       ELSE Put(funcList, decl'.name, <<>>)]_vars

\* C2: an example name with an underscore whose second segment starts with
\* a lower-case letter, a digit, or is empty, is stored under the first
\* segment without "Example"; only an upper-case first character stores it
\* under Type.Method.
C2_NonUpperIsSubExample ==
    (op = "decl" /\ isExample(decl.name) /\ Len(Split(decl.name, "_")) > 1)
    => LET segs == Split(decl.name, "_")
           base == TrimPrefix(segs[1], Example)
           key  == IF DecodeRuneInString(segs[2]) \in UpperChars
                   THEN base \o <<".">> \o segs[2]
                   ELSE base
       IN  /\ key \in DOMAIN funcList
           /\ funcList[key] # <<>>
           /\ funcList[key][Len(funcList[key])] = EntryOf(decl)

\* C3: no group of the collection has a package name part that ends in
\* "_test".
C3_NoTestSuffixGroup ==
    \A g \in DOMAIN pkgList : ~HasSuffix(Split(g, " ")[1], TestSuffix)

\* The witness of C4: a test declaration was processed after an example
\* had been stored.
C4_Witness ==
    /\ op = "decl"
    /\ decl.name = nTestFoo
    /\ \E k \in DOMAIN funcList : funcList[k] # <<>>

\* C4: a declaration named "Test" or "Benchmark", or with one of these
\* prefixes followed by a character that is not a lower-case letter, leaves
\* the funcs map as it was; "Testify" is inserted as a key with an empty
\* list.
C4_TestsChangeNothing ==
    [][DeclStep =>
        LET n == decl'.name
            excluded ==
                \E prefix \in {Test, Benchmark} :
                    /\ HasPrefix(n, prefix)
                    /\ \/ Len(n) = Len(prefix)
                       \/ n[Len(prefix) + 1] \notin LowerChars
        IN  /\ excluded => funcList' = funcList
            /\ n = nTestify =>
                  /\ nTestify \in DOMAIN funcList'
                  /\ funcList'[nTestify] = <<>>
                  /\ \A k \in DOMAIN funcList : k \in DOMAIN funcList'
                  /\ \A k \in DOMAIN funcList \ {nTestify} :
                        funcList'[k] = funcList[k]]_vars

\* The step just taken was NoExports: a package was visited and the walk
\* went on without scanning it.
NoExportsStep == pc = "walk" /\ pc' = "walk" /\ seen' # seen

\* The step just taken merged funcList' into the collection.
MergeStep == (pc = "scan" /\ pc' = "walk") \/ NoExportsStep

\* The witness of C5: a package was merged into a group that already held
\* an example under the same key.
C5_Witness ==
    /\ op = "end"
    /\ LET g == PkgName(pName, Dirs[dir])
       IN  \E k \in DOMAIN funcList :
              /\ funcList[k] # <<>>
              /\ Len(pkgList[g][k]) > Len(funcList[k])

\* C5: merging a funcs map into an existing group gives the union of the
\* two key sets, each list being the existing list followed by the new one;
\* merging a map of the same keys and list lengths doubles every length.
C5_MergeIsUnion ==
    [][MergeStep =>
        LET g == PkgName(pName', Dirs[dir'])
        IN  g \in DOMAIN pkgList =>
              LET old == pkgList[g]
                  new == funcList'
                  res == pkgList'[g]
              IN  /\ DOMAIN pkgList' = DOMAIN pkgList
                  /\ \A h \in DOMAIN pkgList \ {g} : pkgList'[h] = pkgList[h]
                  /\ DOMAIN res = DOMAIN old \cup DOMAIN new
                  /\ \A k \in DOMAIN res :
                        res[k] = (IF k \in DOMAIN old THEN old[k] ELSE <<>>)
                                 \o (IF k \in DOMAIN new THEN new[k] ELSE <<>>)
                  /\ (/\ DOMAIN new = DOMAIN old
                      /\ \A k \in DOMAIN old : Len(new[k]) = Len(old[k]))
                     => \A k \in DOMAIN res : Len(res[k]) = 2 * Len(old[k])]_vars

\* C6: no key of a funcs map starts or ends with "."; a sub-example or
\* method example with nothing between "Example" and the first underscore
\* is stored under the empty key.
C6_KeysWellFormed ==
    /\ \A k \in DOMAIN funcList :
          k # <<>> => (k[1] # "." /\ k[Len(k)] # ".")
    /\ (op = "decl" /\ isExample(decl.name)
                    /\ Len(Split(decl.name, "_")) > 1
                    /\ Split(decl.name, "_")[1] = Example)
       => /\ <<>> \in DOMAIN funcList
          /\ funcList[<<>>] # <<>>
          /\ funcList[<<>>][Len(funcList[<<>>])] = EntryOf(decl)

\* C7 as stated: a package with nothing exported leaves the set of group
\* keys as it was.
C7_NoGroupAdded ==
    [][NoExportsStep => DOMAIN pkgList' = DOMAIN pkgList]_vars

\* The witness of C7: a package with nothing exported was the first of its
\* group, which now exists and is empty.
C7_Witness ==
    /\ op = "noexports"
    /\ seen = {<<pName, dir>>}
    /\ PkgName(pName, Dirs[dir]) \in DOMAIN pkgList
    /\ DOMAIN pkgList[PkgName(pName, Dirs[dir])] = {}

\* C7 as amended: a package with nothing exported changes no existing
\* group, and when no group with its key existed it inserts an empty one.
C7_EmptyGroupOnly ==
    [][NoExportsStep =>
        LET g == PkgName(pName', Dirs[dir'])
        IN  /\ DOMAIN pkgList' = DOMAIN pkgList \cup {g}
            /\ \A h \in DOMAIN pkgList : pkgList'[h] = pkgList[h]
            /\ g \notin DOMAIN pkgList => DOMAIN pkgList'[g] = {}]_vars

C9_Witness ==
    /\ op = "end"
    /\ Cardinality(seen) >= 2
    /\ LET g == PkgName(pName, Dirs[dir])
       IN  \E k \in DOMAIN funcList :
              /\ funcList[k] # <<>>
              /\ Len(pkgList[g][k]) > Len(funcList[k])
              /\ LineOf(pkgList[g][k][1]) < LineOf(funcList[k][1])

\* C9: in every list of every funcs map the entries stand in the order in
\* which their declarations were yielded, also after a merge.
C9_DiscoveryOrder ==
    \A m \in FuncMaps : \A k \in DOMAIN m :
        \A i, j \in 1..Len(m[k]) :
            i < j => LineOf(m[k][i]) < LineOf(m[k][j])

\* The witness of C10: a merged group holds a method example and another
\* example under different keys.
C10_Witness ==
    /\ op = "end"
    /\ Cardinality(seen) >= 2
    /\ \E g \in DOMAIN pkgList :
          \E k1, k2 \in DOMAIN pkgList[g] :
              /\ k1 # k2
              /\ pkgList[g][k1] # <<>>
              /\ pkgList[g][k2] # <<>>
              /\ NameOf(pkgList[g][k1][1]) = nExampleFoo_Bar

\* C10: every entry stored under a key comes from a name that is an example
\* and whose owner key is that key; the example declaration just processed
\* has exactly one entry, under exactly one key, and a plain, test or
\* benchmark declaration has none.
C10_EntriesUnderOwnerKey ==
    /\ \A m \in FuncMaps : \A k \in DOMAIN m : \A i \in 1..Len(m[k]) :
          LET name == NameOf(m[k][i])
              segs == Split(name, "_")
              base == TrimPrefix(segs[1], Example)
          IN  /\ HasPrefix(name, Example)
              /\ \/ Len(name) = Len(Example)
                 \/ name[Len(Example) + 1] \notin LowerChars
              /\ k = IF Len(segs) = 1 THEN base
                     ELSE IF segs[2] # <<>> /\ segs[2][1] \in LowerChars
                     THEN base
                     ELSE base \o <<".">> \o segs[2]
    /\ op = "decl" =>
          LET places == {ki \in UNION {{<<k, i>> : i \in 1..Len(funcList[k])} :
                                          k \in DOMAIN funcList} :
                            LineOf(funcList[ki[1]][ki[2]]) = decl.line}
              isEx   == /\ HasPrefix(decl.name, Example)
                        /\ \/ Len(decl.name) = Len(Example)
                           \/ decl.name[Len(Example) + 1] \notin LowerChars
          IN  /\ Cardinality(places) = IF isEx THEN 1 ELSE 0
              /\ \A ki \in places :
                    funcList[ki[1]][ki[2]] = EntryOf(decl)

====
